---- MODULE Spec2Model ----
(***************************************************************************)
(* Generate -> execute -> judge pipeline of the coding agent:              *)
(*   coding_agent.py      code_generator_node, CodingAgent.generate_code   *)
(*   test.py              run_code, main                                   *)
(*   static_evaluator.py  StaticEvaluator.evaluate, evaluate_and_print     *)
(* Python strings are sequences of one-character strings.                  *)
(***************************************************************************)
EXTENDS Naturals, Sequences, FiniteSets

VARIABLES
    pc,             \* position of the control thread
    response,       \* response.content of the generation call
    generated_code, \* result["generated_code"]
    fileExists,     \* os.path.exists(output_file)
    fileContent,    \* text of output_file while it exists
    written,        \* generate_code wrote output_file in this run
    child,          \* the child process: none, running, exited, killed
    returncode,     \* result.returncode of the child, once it exited
    outcome,        \* which return statement of run_code was taken
    stdout,         \* run_code's first result
    stderr,         \* run_code's second result
    success,        \* run_code's third result
    judgeContent,   \* response.content of the judge call
    verdict,        \* <<>> or <<the dictionary evaluate returns>>
    judgeCalls,     \* number of judge llm.invoke calls made
    report,         \* <<>> or <<what main reports last>>
    trace           \* the outbound calls and side effects, in order

vars == <<pc, response, generated_code, fileExists, fileContent, written,
          child, returncode, outcome, stdout, stderr, success, judgeContent,
          verdict, judgeCalls, report, trace>>

-----------------------------------------------------------------------------
(* Bounds of the input sets *)

MaxSegs == 4
MaxReplySegs == 3
MaxOutSegs == 3

-----------------------------------------------------------------------------
(* Python str operations *)

Whitespace == {" ", "\n"}

RECURSIVE lstrip(_)
lstrip(s) ==
    IF s # <<>> /\ Head(s) \in Whitespace THEN lstrip(Tail(s)) ELSE s

RECURSIVE rstrip(_)
rstrip(s) ==
    IF s # <<>> /\ s[Len(s)] \in Whitespace
    THEN rstrip(SubSeq(s, 1, Len(s) - 1))
    ELSE s

strip(s) == rstrip(lstrip(s))

startswith(s, prefix) ==
    Len(s) >= Len(prefix) /\ SubSeq(s, 1, Len(prefix)) = prefix

\* s.replace(old, new) for non-empty old: leftmost non-overlapping matches
RECURSIVE replace(_, _, _)
replace(s, old, new) ==
    IF s = <<>> THEN <<>>
    ELSE IF startswith(s, old)
         THEN new \o replace(SubSeq(s, Len(old) + 1, Len(s)), old, new)
         ELSE <<Head(s)>> \o replace(Tail(s), old, new)

\* sub in s
RECURSIVE contains(_, _)
contains(s, sub) ==
    IF Len(s) < Len(sub) THEN FALSE
    ELSE startswith(s, sub) \/ contains(Tail(s), sub)

LowerLetters == <<"a","b","c","d","e","f","g","h","i","j","k","l","m",
                  "n","o","p","q","r","s","t","u","v","w","x","y","z">>
UpperLetters == <<"A","B","C","D","E","F","G","H","I","J","K","L","M",
                  "N","O","P","Q","R","S","T","U","V","W","X","Y","Z">>

UpperChar(c) ==
    IF \E i \in DOMAIN LowerLetters : LowerLetters[i] = c
    THEN UpperLetters[CHOOSE i \in DOMAIN LowerLetters : LowerLetters[i] = c]
    ELSE c

upper(s) == [i \in 1..Len(s) |-> UpperChar(s[i])]

-----------------------------------------------------------------------------
(* Input sets: texts built from at most n segments *)

RECURSIVE Flatten(_)
Flatten(ss) == IF ss = <<>> THEN <<>> ELSE Head(ss) \o Flatten(Tail(ss))

Texts(segments, n) ==
    {Flatten(ss) : ss \in UNION {[1..k -> segments] : k \in 0..n}}

\* the grave accent character (U+0060), written BT
Backtick == "BT"
Fence == <<Backtick, Backtick, Backtick>>
FencePython == Fence \o <<"p", "y", "t", "h", "o", "n">>
PASS == <<"P", "A", "S", "S">>
FAIL == <<"F", "A", "I", "L">>

GenSegments ==
    {Fence, <<Backtick>>, <<"p", "y", "t", "h", "o", "n">>, <<" ">>, <<"\n">>, <<"x">>}
Completions == Texts(GenSegments, MaxSegs)

ReplySegments ==
    {PASS, FAIL, <<"p", "a", "s", "s">>, <<"P", "a">>, <<"s", "S">>, <<"S">>, <<" ">>}
Replies == Texts(ReplySegments, MaxReplySegs)

OutSegments == {<<"4">>, <<"2">>, <<" ">>, <<"\n">>}
ChildOutputs == Texts(OutSegments, MaxOutSegs)
ChildErrors == {<<>>, <<"E", "r", "r", "\n">>}

\* the completions and replies the whole pipeline is run on
PipelineCompletions ==
    {<<>>,
     <<"x">>,
     FencePython \o <<"\n", "x", "\n">> \o Fence,
     Fence \o <<"x">> \o Fence \o <<"\n">>,
     <<"x", "\n">> \o Fence}
PipelineReplies ==
    {PASS, FAIL, <<>>, <<"p", "a", "s", "s", "\n">>, PASS \o <<" ">> \o FAIL}

task == "task"
output_file == "test_generated_code.py"

MsgFileNotFound == <<"File not found: ", output_file>>
MsgTimeout == <<"Execution timed out">>
MsgException == <<"str(e)">>

-----------------------------------------------------------------------------
(* coding_agent.py *)

\* Extract with the tagged branch removing only the opening marker
Extract_KeepsClosingFence(content) ==
    LET code == strip(content) IN
    IF startswith(code, FencePython)
    THEN strip(replace(code, FencePython, <<>>))
    ELSE IF startswith(code, Fence)
         THEN strip(replace(code, Fence, <<>>))
         ELSE code

\* Extract removing every fence marker, wherever the text starts
Extract_StripsEveryFence(content) ==
    strip(replace(replace(strip(content), FencePython, <<>>), Fence, <<>>))

\* code_generator_node: response.content -> code
Extract(content) ==
    LET code == strip(content) IN
    IF startswith(code, FencePython)
    THEN strip(replace(replace(code, FencePython, <<>>), Fence, <<>>))
    ELSE IF startswith(code, Fence)
         THEN strip(replace(code, Fence, <<>>))
         ELSE code

\* main calls agent.generate_code, which invokes the graph; the node calls
\* llm.invoke and the control thread waits for the reply
MainGenerate ==
    /\ pc = "Idle"
    /\ pc' = "Generating"
    /\ trace' = Append(trace, "gen_call")
    /\ UNCHANGED <<response, generated_code, fileExists, fileContent, written,
                   child, returncode, outcome, stdout, stderr, success,
                   judgeContent, verdict, judgeCalls, report>>

\* llm.invoke returns a completion
GenLLMReturn(completions) ==
    /\ pc = "Generating"
    /\ \E raw \in completions : response' = raw
    /\ pc' = "gen_extract"
    /\ trace' = Append(trace, "gen_return")
    /\ UNCHANGED <<generated_code, fileExists, fileContent, written, child,
                   returncode, outcome, stdout, stderr, success, judgeContent,
                   verdict, judgeCalls, report>>

\* llm.invoke raises: nothing on the way up to main catches it
GenLLMFault ==
    /\ pc = "Generating"
    /\ pc' = "Crashed"
    /\ trace' = Append(trace, "gen_fault")
    /\ UNCHANGED <<response, generated_code, fileExists, fileContent, written,
                   child, returncode, outcome, stdout, stderr, success,
                   judgeContent, verdict, judgeCalls, report>>

\* the node strips the reply and removes the markdown fences
GenExtract ==
    /\ pc = "gen_extract"
    /\ generated_code' = Extract(response)
    /\ pc' = "gen_write"
    /\ UNCHANGED <<response, fileExists, fileContent, written, child,
                   returncode, outcome, stdout, stderr, success, judgeContent,
                   verdict, judgeCalls, report, trace>>

\* generate_code writes the code to output_file and returns to main, which
\* calls run_code
GenWriteFile ==
    /\ pc = "gen_write"
    /\ fileExists' = TRUE
    /\ fileContent' = generated_code
    /\ written' = TRUE
    /\ pc' = "run_check"
    /\ trace' = Append(trace, "write")
    /\ UNCHANGED <<response, generated_code, child, returncode, outcome,
                   stdout, stderr, success, judgeContent, verdict, judgeCalls,
                   report>>

-----------------------------------------------------------------------------
(* test.py: run_code *)

\* between the write and run_code's os.path.exists another process removes
\* output_file: the case run_code's first branch is written for
ArtifactRemoved ==
    /\ pc = "run_check"
    /\ fileExists
    /\ fileExists' = FALSE
    /\ fileContent' = <<>>
    /\ UNCHANGED <<pc, response, generated_code, written, child, returncode,
                   outcome, stdout, stderr, success, judgeContent, verdict,
                   judgeCalls, report, trace>>

\* os.path.exists(code_file) is false
RunFileMissing ==
    /\ pc = "run_check"
    /\ ~fileExists
    /\ stdout' = <<>>
    /\ stderr' = MsgFileNotFound
    /\ success' = FALSE
    /\ outcome' = "missing"
    /\ pc' = "run_return"
    /\ UNCHANGED <<response, generated_code, fileExists, fileContent, written,
                   child, returncode, judgeContent, verdict, judgeCalls,
                   report, trace>>

\* RunSpawn starting the child and returning without waiting for it
RunSpawn_NoWait ==
    /\ pc = "run_check"
    /\ fileExists
    /\ child' = "running"
    /\ stdout' = <<>>
    /\ stderr' = <<>>
    /\ success' = TRUE
    /\ outcome' = "exit"
    /\ pc' = "run_return"
    /\ trace' = Append(trace, "spawn")
    /\ UNCHANGED <<response, generated_code, fileExists, fileContent, written,
                   returncode, judgeContent, verdict, judgeCalls, report>>

\* subprocess.run starts the child
RunSpawn ==
    /\ pc = "run_check"
    /\ fileExists
    /\ child' = "running"
    /\ pc' = "run_child"
    /\ trace' = Append(trace, "spawn")
    /\ UNCHANGED <<response, generated_code, fileExists, fileContent, written,
                   returncode, outcome, stdout, stderr, success, judgeContent,
                   verdict, judgeCalls, report>>

\* subprocess.run raises before a child runs (except Exception)
RunSpawnFault ==
    /\ pc = "run_check"
    /\ fileExists
    /\ stdout' = <<>>
    /\ stderr' = MsgException
    /\ success' = FALSE
    /\ outcome' = "fault"
    /\ pc' = "run_return"
    /\ UNCHANGED <<response, generated_code, fileExists, fileContent, written,
                   child, returncode, judgeContent, verdict, judgeCalls,
                   report, trace>>

\* RunChildExit with success not looking at the return code
RunChildExit_IgnoresStatus ==
    /\ pc = "run_child"
    /\ \E rc \in {0, 1}, out \in ChildOutputs, err \in ChildErrors,
          keeps \in BOOLEAN :
          /\ returncode' = rc
          /\ stdout' = strip(out)
          /\ stderr' = strip(err)
          /\ success' = TRUE
          /\ fileExists' = (fileExists /\ keeps)
          /\ fileContent' = IF keeps THEN fileContent ELSE <<>>
    /\ child' = "exited"
    /\ outcome' = "exit"
    /\ pc' = "run_return"
    /\ trace' = Append(trace, "child_end")
    /\ UNCHANGED <<response, generated_code, written, judgeContent, verdict,
                   judgeCalls, report>>

\* the child exits within the timeout; the streams are stripped. The child
\* runs generated code, which may remove its own file.
RunChildExit ==
    /\ pc = "run_child"
    /\ \E rc \in {0, 1}, out \in ChildOutputs, err \in ChildErrors,
          keeps \in BOOLEAN :
          /\ returncode' = rc
          /\ stdout' = strip(out)
          /\ stderr' = strip(err)
          /\ success' = (rc = 0)
          /\ fileExists' = (fileExists /\ keeps)
          /\ fileContent' = IF keeps THEN fileContent ELSE <<>>
    /\ child' = "exited"
    /\ outcome' = "exit"
    /\ pc' = "run_return"
    /\ trace' = Append(trace, "child_end")
    /\ UNCHANGED <<response, generated_code, written, judgeContent, verdict,
                   judgeCalls, report>>

\* subprocess.run kills the child at the timeout and raises TimeoutExpired
RunTimeout ==
    /\ pc = "run_child"
    /\ child' = "killed"
    /\ stdout' = <<>>
    /\ stderr' = MsgTimeout
    /\ success' = FALSE
    /\ outcome' = "timeout"
    /\ pc' = "run_return"
    /\ trace' = Append(trace, "child_end")
    /\ UNCHANGED <<response, generated_code, fileExists, fileContent, written,
                   returncode, judgeContent, verdict, judgeCalls, report>>

\* communicating with the child raises: subprocess.run kills the child and
\* re-raises, run_code catches it (except Exception)
RunCommunicateFault ==
    /\ pc = "run_child"
    /\ child' = "killed"
    /\ stdout' = <<>>
    /\ stderr' = MsgException
    /\ success' = FALSE
    /\ outcome' = "fault"
    /\ pc' = "run_return"
    /\ trace' = Append(trace, "child_end")
    /\ UNCHANGED <<response, generated_code, fileExists, fileContent, written,
                   returncode, judgeContent, verdict, judgeCalls, report>>

-----------------------------------------------------------------------------
(* static_evaluator.py *)

\* judgment = response.content.strip().upper()
Judgment(content) == upper(strip(content))

\* JudgePassed comparing the judgment with the token
JudgePassed_ExactToken(judgment) == judgment = PASS

\* JudgePassed letting a FAIL in the judgment win
JudgePassed_FailWins(judgment) ==
    contains(judgment, PASS) /\ ~contains(judgment, FAIL)

\* passed = "PASS" in judgment
JudgePassed(judgment) == contains(judgment, PASS)

\* the dictionary evaluate returns
Evaluate(content, output, query) ==
    [pass |-> JudgePassed(Judgment(content)),
     output |-> output,
     query |-> query,
     judgment |-> Judgment(content)]

\* evaluate builds the prompt and calls llm.invoke
JudgeInvoke ==
    /\ pc = "judge_entry"
    /\ judgeCalls' = judgeCalls + 1
    /\ pc' = "Judging"
    /\ trace' = Append(trace, "judge_call")
    /\ UNCHANGED <<response, generated_code, fileExists, fileContent, written,
                   child, returncode, outcome, stdout, stderr, success,
                   judgeContent, verdict, report>>

\* llm.invoke returns the judge's reply
JudgeLLMReturn(replies) ==
    /\ pc = "Judging"
    /\ \E reply \in replies : judgeContent' = reply
    /\ pc' = "judge_parse"
    /\ trace' = Append(trace, "judge_return")
    /\ UNCHANGED <<response, generated_code, fileExists, fileContent, written,
                   child, returncode, outcome, stdout, stderr, success,
                   verdict, judgeCalls, report>>

\* llm.invoke raises: evaluate, evaluate_and_print and main let it through
JudgeLLMFault ==
    /\ pc = "Judging"
    /\ pc' = "Crashed"
    /\ trace' = Append(trace, "judge_fault")
    /\ UNCHANGED <<response, generated_code, fileExists, fileContent, written,
                   child, returncode, outcome, stdout, stderr, success,
                   judgeContent, verdict, judgeCalls, report>>

\* evaluate parses the reply and returns
JudgeEvaluate ==
    /\ pc = "judge_parse"
    /\ verdict' = <<Evaluate(judgeContent, stdout, task)>>
    /\ pc' = "cleanup"
    /\ UNCHANGED <<response, generated_code, fileExists, fileContent, written,
                   child, returncode, outcome, stdout, stderr, success,
                   judgeContent, judgeCalls, report, trace>>

-----------------------------------------------------------------------------
(* test.py: main *)

\* MainExecutionFailed without the return: main goes on to the judge
MainExecutionFailed_FallsThrough ==
    /\ pc = "run_return"
    /\ ~success
    /\ report' = <<[status |-> "failed", reason |-> stderr]>>
    /\ fileExists' = FALSE
    /\ fileContent' = <<>>
    /\ pc' = "judge_entry"
    /\ trace' = IF fileExists THEN Append(trace, "remove") ELSE trace
    /\ UNCHANGED <<response, generated_code, written, child, returncode,
                   outcome, stdout, stderr, success, judgeContent, verdict,
                   judgeCalls>>

\* MainExecutionFailed reporting the failure without stderr
MainExecutionFailed_NoReason ==
    /\ pc = "run_return"
    /\ ~success
    /\ report' = <<[status |-> "failed", reason |-> <<>>]>>
    /\ fileExists' = FALSE
    /\ fileContent' = <<>>
    /\ pc' = "Failed"
    /\ trace' = IF fileExists THEN Append(trace, "remove") ELSE trace
    /\ UNCHANGED <<response, generated_code, written, child, returncode,
                   outcome, stdout, stderr, success, judgeContent, verdict,
                   judgeCalls>>

\* if not success: report stderr, remove the file if it exists, return
MainExecutionFailed ==
    /\ pc = "run_return"
    /\ ~success
    /\ report' = <<[status |-> "failed", reason |-> stderr]>>
    /\ fileExists' = FALSE
    /\ fileContent' = <<>>
    /\ pc' = "Failed"
    /\ trace' = IF fileExists THEN Append(trace, "remove") ELSE trace
    /\ UNCHANGED <<response, generated_code, written, child, returncode,
                   outcome, stdout, stderr, success, judgeContent, verdict,
                   judgeCalls>>

\* success: main constructs the evaluator and calls evaluate_and_print
MainJudge ==
    /\ pc = "run_return"
    /\ success
    /\ pc' = "judge_entry"
    /\ UNCHANGED <<response, generated_code, fileExists, fileContent, written,
                   child, returncode, outcome, stdout, stderr, success,
                   judgeContent, verdict, judgeCalls, report, trace>>

\* MainCleanup without the os.remove
MainCleanup_KeepsFile ==
    /\ pc = "cleanup"
    /\ report' = <<[status |-> "done", passed |-> verdict[1].pass]>>
    /\ pc' = "Done"
    /\ UNCHANGED <<response, generated_code, fileExists, fileContent, written,
                   child, returncode, outcome, stdout, stderr, success,
                   judgeContent, verdict, judgeCalls, trace>>

\* after the judge: remove the file if it exists, report the final result
MainCleanup ==
    /\ pc = "cleanup"
    /\ report' = <<[status |-> "done", passed |-> verdict[1].pass]>>
    /\ fileExists' = FALSE
    /\ fileContent' = <<>>
    /\ pc' = "Done"
    /\ trace' = IF fileExists THEN Append(trace, "remove") ELSE trace
    /\ UNCHANGED <<response, generated_code, written, child, returncode,
                   outcome, stdout, stderr, success, judgeContent, verdict,
                   judgeCalls>>

-----------------------------------------------------------------------------
(* Specifications *)

Blank ==
    /\ response = <<>>
    /\ generated_code = <<>>
    /\ written = FALSE
    /\ child = "none"
    /\ returncode = 0
    /\ outcome = "none"
    /\ stdout = <<>>
    /\ stderr = <<>>
    /\ success = FALSE
    /\ judgeContent = <<>>
    /\ verdict = <<>>
    /\ judgeCalls = 0
    /\ report = <<>>
    /\ trace = <<>>

\* main is entered; output_file may be left over from an earlier run
Init ==
    /\ pc = "Idle"
    /\ fileExists \in BOOLEAN
    /\ fileContent = IF fileExists THEN <<"o", "l", "d">> ELSE <<>>
    /\ Blank

Next ==
    \/ MainGenerate
    \/ GenLLMReturn(PipelineCompletions)
    \/ GenLLMFault
    \/ GenExtract
    \/ GenWriteFile
    \/ ArtifactRemoved
    \/ RunFileMissing
    \/ RunSpawn
    \/ RunSpawnFault
    \/ RunChildExit
    \/ RunTimeout
    \/ RunCommunicateFault
    \/ MainExecutionFailed
    \/ MainJudge
    \/ JudgeInvoke
    \/ JudgeLLMReturn(PipelineReplies)
    \/ JudgeLLMFault
    \/ JudgeEvaluate
    \/ MainCleanup

Spec == Init /\ [][Next]_vars

\* the control thread is the only thread and every call it waits on returns,
\* raises or is cut off by the timeout
FairSpec == Spec /\ WF_vars(Next)

\* the generation stage alone, on every completion of the bounded set
GenNext ==
    \/ MainGenerate
    \/ GenLLMReturn(Completions)
    \/ GenLLMFault
    \/ GenExtract

GenSpec == Init /\ [][GenNext]_vars

\* run_code alone, called on a path that may or may not exist
RunInit ==
    /\ pc = "run_check"
    /\ fileExists \in BOOLEAN
    /\ fileContent = IF fileExists THEN <<"x">> ELSE <<>>
    /\ Blank

RunNext ==
    \/ RunFileMissing
    \/ RunSpawn
    \/ RunSpawnFault
    \/ RunChildExit
    \/ RunTimeout
    \/ RunCommunicateFault

RunSpec == RunInit /\ [][RunNext]_vars

\* the outputs evaluate is called on
JudgeOutputs == {<<>>, <<"4", "2">>}

\* evaluate alone, called on an output, on every reply of the bounded set
JudgeInit ==
    /\ pc = "judge_entry"
    /\ fileExists = FALSE
    /\ fileContent = <<>>
    /\ response = <<>>
    /\ generated_code = <<>>
    /\ written = FALSE
    /\ child = "none"
    /\ returncode = 0
    /\ outcome = "none"
    /\ stdout \in JudgeOutputs
    /\ stderr = <<>>
    /\ success = FALSE
    /\ judgeContent = <<>>
    /\ verdict = <<>>
    /\ judgeCalls = 0
    /\ report = <<>>
    /\ trace = <<>>

JudgeNext ==
    \/ JudgeInvoke
    \/ JudgeLLMReturn(Replies)
    \/ JudgeLLMFault
    \/ JudgeEvaluate

JudgeSpec == JudgeInit /\ [][JudgeNext]_vars

-----------------------------------------------------------------------------
(* Properties *)

\* sub occurs in s at some position
Occurs(sub, s) ==
    \E i \in 1..(Len(s) + 1) :
        /\ i + Len(sub) - 1 <= Len(s)
        /\ \A k \in 1..Len(sub) : s[i + k - 1] = sub[k]

\* s without its leading and trailing whitespace
TrimOf(s) ==
    LET solid == {i \in 1..Len(s) : s[i] \notin Whitespace} IN
    IF solid = {} THEN <<>>
    ELSE SubSeq(s, CHOOSE i \in solid : \A j \in solid : i <= j,
                   CHOOSE i \in solid : \A j \in solid : j <= i)

Happened(event) == \E i \in 1..Len(trace) : trace[i] = event

Before(first, second) ==
    \A i \in 1..Len(trace) :
        trace[i] = second => \E j \in 1..(i - 1) : trace[j] = first

ExecutionFailed == outcome # "none" /\ ~success
Ended == pc \in {"Done", "Failed", "Crashed"}

\* C1: once run_code has returned success = False (missing file, timeout,
\* nonzero exit or fault), the judge's llm.invoke is never called in the run
\* and the run ends in Failed
C1_FailedRunSkipsJudge ==
    /\ [](ExecutionFailed =>
            /\ judgeCalls = 0
            /\ ~Happened("judge_call")
            /\ pc \in {"run_return", "Failed"})
    /\ (ExecutionFailed ~> pc = "Failed")

\* a run whose generated code exited nonzero has ended in Failed
C1_Witness ==
    pc = "Failed" /\ outcome = "exit" /\ returncode = 1 /\ judgeCalls = 0

\* C2: in Done and in Failed, output_file does not exist
C2_NoArtifactAtTerminal ==
    pc \in {"Done", "Failed"} => ~fileExists

\* a run that wrote the file ended in Done by removing it
C2_Witness ==
    /\ pc = "Done"
    /\ written
    /\ trace[Len(trace)] = "remove"
    /\ ~fileExists

\* C3: the verdict's pass is true exactly when the trimmed, upper-cased
\* reply contains PASS, and it is always one of the two booleans
C3_PassIffContainsPASS ==
    /\ verdict # <<>> =>
          /\ verdict[1].pass \in BOOLEAN
          /\ verdict[1].pass <=> Occurs(PASS, upper(TrimOf(judgeContent)))
          /\ verdict[1].judgment = upper(TrimOf(judgeContent))
    /\ Evaluate(<<"p", "a", "s", "s">>, <<>>, task).pass
    /\ Evaluate(<<"I", " ", "t", "h", "i", "n", "k", " ">> \o PASS, <<>>, task).pass
    /\ ~Evaluate(FAIL, <<>>, task).pass
    /\ ~Evaluate(<<>>, <<>>, task).pass

\* a lower-case reply inside other text has passed
C3_Witness ==
    /\ pc = "cleanup"
    /\ verdict # <<>>
    /\ verdict[1].pass
    /\ judgeContent = <<" ", "P", "a", "s", "S">>

HasPASS(reply) == Occurs(PASS, upper(TrimOf(reply)))
HasFAIL(reply) == Occurs(FAIL, upper(TrimOf(reply)))

\* C4 as claimed: a reply with neither token or with both gives pass = False
C4_AmbiguousFails ==
    (verdict # <<>> /\ (HasPASS(judgeContent) <=> HasFAIL(judgeContent)))
        => ~verdict[1].pass

\* C4 as amended: a reply with neither token gives pass = False, a reply
\* with both tokens gives pass = True, and once the reply has arrived
\* evaluate returns a verdict without raising
C4_AmbiguousByContainment ==
    /\ verdict # <<>> =>
          /\ (~HasPASS(judgeContent) /\ ~HasFAIL(judgeContent))
                => ~verdict[1].pass
          /\ (HasPASS(judgeContent) /\ HasFAIL(judgeContent))
                => verdict[1].pass
    /\ Happened("judge_return") => pc \in {"judge_parse", "cleanup"}
    /\ pc = "cleanup" => verdict # <<>>

\* a reply holding both tokens has been judged
C4_Witness ==
    /\ pc = "cleanup"
    /\ verdict # <<>>
    /\ HasPASS(judgeContent)
    /\ HasFAIL(judgeContent)

\* C5 as claimed: the generated code never contains a fence marker
C5_NoFenceAnywhere ==
    pc = "gen_write" => ~Occurs(Fence, generated_code)

\* C5 as amended: when the trimmed completion starts with a fence marker,
\* the generated code contains no fence marker
C5_NoFenceWhenFenced ==
    (pc = "gen_write" /\ startswith(TrimOf(response), Fence))
        => ~Occurs(Fence, generated_code)

\* a completion with a tagged opening and a closing fence has been extracted
C5_Witness ==
    /\ pc = "gen_write"
    /\ startswith(TrimOf(response), FencePython)
    /\ Len(response) > Len(FencePython) + Len(Fence)
    /\ SubSeq(response, Len(response) - 2, Len(response)) = Fence
    /\ generated_code = <<"x">>

\* C6: when the trimmed completion does not start with a fence marker, the
\* generated code is the trimmed completion, fence markers inside included
C6_UnfencedIsTrimmed ==
    (pc = "gen_write" /\ ~startswith(TrimOf(response), Fence))
        => generated_code = TrimOf(response)

\* a completion with a fence marker after its first character, and
\* whitespace around it, has been extracted
C6_Witness ==
    /\ pc = "gen_write"
    /\ ~startswith(TrimOf(response), Fence)
    /\ Occurs(Fence, response)
    /\ Occurs(Fence, generated_code)
    /\ generated_code # response

\* C7: run_code always returns its triple; success only after the file
\* existed, the child was started, exited in time and returned 0; no child
\* is started for a missing file; a timeout gives empty stdout and the
\* timeout message
C7_RunnerResult ==
    /\ [](/\ pc \in {"run_check", "run_child", "run_return"}
          /\ pc = "run_return" => outcome # "none"
          /\ (pc = "run_return" /\ success) =>
                /\ outcome = "exit"
                /\ Happened("spawn")
                /\ child = "exited"
                /\ returncode = 0
          /\ outcome = "missing" =>
                child = "none" /\ ~Happened("spawn") /\ ~success
          /\ outcome = "timeout" =>
                /\ child = "killed"
                /\ stdout = <<>>
                /\ stderr = MsgTimeout
                /\ ~success
          /\ outcome \in {"fault", "timeout"} => ~success
          /\ stdout = TrimOf(stdout))
    /\ [][(pc = "run_check" /\ ~fileExists) =>
            (pc' = "run_return" /\ child' = "none" /\ ~success'
             /\ stdout' = <<>> /\ stderr' = MsgFileNotFound)]_vars
    /\ [][child' = "running" => (child = "running" \/ fileExists)]_vars

\* the child printed something and exited nonzero
C7_Witness ==
    /\ pc = "run_return"
    /\ outcome = "exit"
    /\ returncode = 1
    /\ stdout # <<>>
    /\ ~success

\* C8 as claimed: a run that produced an execution result ends in Done with
\* a verdict when execution succeeded and in Failed with the reason and no
\* verdict when it did not, and in no other way
C8_EndsDoneOrFailed ==
    (Ended /\ outcome # "none") =>
        IF success
        THEN pc = "Done" /\ verdict # <<>>
        ELSE pc = "Failed" /\ verdict = <<>>

\* C8 as amended: a run that produced an execution result ends; in Failed
\* with stderr as the reason and no verdict when execution did not succeed,
\* in Done with a verdict when it succeeded and the judge's call returned,
\* and with the judge call's fault, without verdict or report, when that
\* call raised
C8_EndsDoneFailedOrJudgeFault ==
    /\ []((Ended /\ outcome # "none") =>
            IF ~success
            THEN /\ pc = "Failed"
                 /\ verdict = <<>>
                 /\ report = <<[status |-> "failed", reason |-> stderr]>>
            ELSE IF Happened("judge_return")
                 THEN /\ pc = "Done"
                      /\ verdict # <<>>
                      /\ report = <<[status |-> "done",
                                     passed |-> verdict[1].pass]>>
                 ELSE /\ pc = "Crashed"
                      /\ Happened("judge_fault")
                      /\ verdict = <<>>
                      /\ report = <<>>)
    /\ (outcome # "none" ~> Ended)

\* a successful execution was judged FAIL and the run is Done
C8_Witness ==
    /\ pc = "Done"
    /\ success
    /\ verdict # <<>>
    /\ ~verdict[1].pass
    /\ report = <<[status |-> "done", passed |-> FALSE]>>

\* C9: the generation call has returned and the file has been written
\* before the child is started, the child has ended before the judge is
\* called, and the control thread does nothing else while the child runs
C9_StagesInOrder ==
    /\ Before("gen_call", "gen_return")
    /\ Before("gen_return", "write")
    /\ Before("write", "spawn")
    /\ Before("spawn", "child_end")
    /\ Before("child_end", "judge_call")
    /\ child = "running" <=> pc = "run_child"
    /\ Happened("judge_call") => child = "exited"
    /\ Happened("spawn") => written

\* the judge has been called after the whole sequence
C9_Witness ==
    /\ pc = "Judging"
    /\ trace = <<"gen_call", "gen_return", "write", "spawn", "child_end",
                 "judge_call">>

\* C10: whenever a run has ended after writing the file, also by a fault of
\* the judge's call, output_file does not exist
C10_ArtifactRemovedAtEveryEnd ==
    (Ended /\ written) => ~fileExists

====
